---- MODULE Spec2Model ----
(***************************************************************************)
(* Model of src/correct_missing_data.py: fill_missing_irradiance_data,     *)
(* the row-wise cross-year imputation of missing irradiance readings.      *)
(*                                                                         *)
(* A cell value is a pair <<n, d>>: the rational n/d in lowest terms when  *)
(* d > 0, and the not-a-number marker when d = 0 (0/0, as numpy produces   *)
(* it).  A DataFrame is a record [index, columns, values]: the row labels, *)
(* the column names and one sequence of cells per row, the two identifier  *)
(* cells first.                                                            *)
(***************************************************************************)
EXTENDS Integers, Sequences, FiniteSets

\* ---------------------------------------------------------------- bounds
MaxRows == 3
MaxCols == 3
MaxCells == 6
MaxVal == 1
MaxLabel == 1

\* First year column of the example sheet.
FirstYear == 2013

\* heap: the DataFrame objects, by reference (1, 2, ...); df, df_filled and ret
\* are references into it (0: not bound yet).  stdout holds the lines the
\* current call has printed.  given is the caller's table as it was when the
\* call was made, visited the row positions the loop has processed, in order;
\* run counts the calls and first refers to the table the first call returned.
VARIABLES heap, df, df_filled, irradiance_cols, rows, i, pc, stdout, visited, ret,
          given, run, first

vars == <<pc, i, visited, run, ret, first, df, df_filled, irradiance_cols, stdout,
          rows, given, heap>>

\* ---------------------------------------------------------- cell values
NaN == <<0, 0>>

Val(n) == <<n, 1>>

\* pandas isnull / numpy isnan on one cell.
isnan(x) == x[2] = 0

\* Arithmetic is written as functions of values, so that an argument is
\* evaluated once.
GCD[a \in Nat, b \in Nat] == IF b = 0 THEN a ELSE GCD[b, a % b]

\* A quotient n/d (d > 0, n >= 0) as a cell value.
Quot[n \in Nat, d \in Nat] == <<n \div GCD[n, d], d \div GCD[n, d]>>

\* Float addition of two non-NaN cells.
Add[x \in Nat \X Nat, y \in Nat \X Nat] ==
  Quot[x[1] * y[2] + y[1] * x[2], x[2] * y[2]]

\* ------------------------------------------------------------- numpy
\* numpy _replace_nan(a, 0): NaN entries become 0.
ReplaceNan(a) == [k \in 1..Len(a) |-> IF isnan(a[k]) THEN Val(0) ELSE a[k]]

\* np.sum over a 1-D array without NaN.
Sum(a) ==
  LET SumTo[k \in 0..Len(a)] == IF k = 0 THEN Val(0) ELSE Add[SumTo[k - 1], a[k]]
  IN SumTo[Len(a)]

\* Mutant of CountValid: the NaN entries are counted too (a plain mean over
\* the zero-filled array).
CountAll(a) == Len(a)

\* np.sum(~mask): how many entries are not NaN.
CountValid(a) == Cardinality({k \in 1..Len(a) : ~isnan(a[k])})

\* Mutant of DivideByCount: a zero total is taken for "no data".
DivideByCountFalsy(tot, cnt) ==
  IF cnt = 0 \/ tot[1] = 0 THEN NaN ELSE Quot[tot[1], tot[2] * cnt]

\* numpy _divide_by_count: tot / cnt, and 0/0 is NaN.
DivideByCount(tot, cnt) == IF cnt = 0 THEN NaN ELSE Quot[tot[1], tot[2] * cnt]

\* Mutant of nanmean: np.mean over the NaN-as-zero array.
meanZeroFilled(a) ==
  IF Len(a) = 0 THEN NaN ELSE Quot[Sum(ReplaceNan(a))[1], Sum(ReplaceNan(a))[2] * Len(a)]

\* np.nanmean(a): mean of the entries that are not NaN, NaN if there is none.
nanmean(a) == DivideByCount(Sum(ReplaceNan(a)), CountValid(a))

\* ------------------------------------------------------------- pandas
\* Mutant of fillna: every entry becomes v.
fillnaAll(a, v) == [k \in 1..Len(a) |-> v]

\* Mutant of fillna: fillna(v, limit=1), only the first NaN entry becomes v.
fillnaLimit1(a, v) ==
  [k \in 1..Len(a) |->
     IF isnan(a[k]) /\ (\A j \in 1..(k - 1) : ~isnan(a[j])) THEN v ELSE a[k]]

\* Series.fillna(v): NaN entries become v, the others are kept.
fillna(a, v) == [k \in 1..Len(a) |-> IF isnan(a[k]) THEN v ELSE a[k]]

\* Mutant of ColumnsFrom2: df.columns[1:], the slice starts one column early.
ColumnsFrom1(d) == SubSeq(d.columns, 2, Len(d.columns))

\* df.columns[2:]: the names from the third column onward.
ColumnsFrom2(d) == SubSeq(d.columns, 3, Len(d.columns))

\* Index.get_loc on the (uniquely named) columns: the position of a name.
ColPos(columns, name) == CHOOSE j \in 1..Len(columns) : columns[j] = name

\* Whether a name is among cols.
InCols(cols, name) == \E k \in 1..Len(cols) : cols[k] = name

\* row[cols]: the cells of one row under the names cols, in that order.
Select(r, columns, cols) == [k \in 1..Len(cols) |-> r[ColPos(columns, cols[k])]]

\* Mutant of NullCount: df.isnull().sum().sum(), all columns are counted.
NullCountAllColumns(d, cols) ==
  Cardinality({c \in (1..Len(d.values)) \X (1..Len(d.columns)) :
                 isnan(d.values[c[1]][c[2]])})

\* df[cols].isnull().sum().sum(): the NaN cells under the columns cols.
NullCount(d, cols) ==
  Cardinality({c \in (1..Len(d.values)) \X (1..Len(cols)) :
                 isnan(d.values[c[1]][ColPos(d.columns, cols[c[2]])])})

\* df.copy(): a new object holding the same labels, names and cells.
CopyHeap(h, r) == Append(h, h[r])

\* Mutant of CopyRef: df_filled = df, the same object under a second name.
AliasRef(h, r) == r

\* The reference df.copy() returns: the new object.
CopyRef(h, r) == Len(h) + 1

\* DataFrame.iterrows() evaluates self.values once: for a frame of mixed column
\* types that is a fresh array, so the loop reads the rows as they were when it
\* started.
iterrows(d) == d.values

\* Index.is_monotonic_increasing
IsMonotonicIncreasing(idx) == \A p, q \in 1..Len(idx) : p < q => idx[p] <= idx[q]

\* The row positions carrying a label.
Positions(idx, label) == {p \in 1..Len(idx) : idx[p] = label}

\* Index.get_loc(label) on the rows: an integer for a label that occurs once, a
\* slice for a repeated label of a sorted index, a boolean mask otherwise.
get_loc(idx, label) ==
  IF Cardinality(Positions(idx, label)) = 1 THEN "int"
  ELSE IF IsMonotonicIncreasing(idx) THEN "slice"
  ELSE "mask"

\* Series.reindex(new_ix): the value under each label of new_ix, NaN for a
\* label the series does not have.
Reindex(ser_index, ser_values, new_ix) ==
  [k \in 1..Len(new_ix) |->
     IF InCols(ser_index, new_ix[k])
     THEN ser_values[ColPos(ser_index, new_ix[k])]
     ELSE NaN]

\* How many addressed rows lie at or before position p.
Rank(P, p) == Cardinality({q \in P : q <= p})

\* Mutant of LocRaises: the length check is made for a single row as well.
LocRaisesAnyKind(d, label, cols) ==
  /\ Len(cols) # 1
  /\ Len(cols) # Cardinality(Positions(d.index, label))

\* df.loc[label, cols] = ser raises ValueError ("Must have equal len keys and
\* value when setting with an iterable"): a slice of k rows, aligned to k
\* values, against a number of columns that is neither 1 nor k.
LocRaises(d, label, cols) ==
  /\ get_loc(d.index, label) = "slice"
  /\ Len(cols) # 1
  /\ Len(cols) # Cardinality(Positions(d.index, label))

\* The cell df.loc[label, cols] = ser stores at row p under the k-th name of cols.
\* One row: the series is aligned on the column names.  Several rows: the series
\* is aligned on the row labels (reindex), per row for a mask or a single
\* column, per column for a slice of as many rows as columns.
LocValue(d, label, cols, ser, p, k) ==
  LET P == Positions(d.index, label)
      kind == get_loc(d.index, label)
      re == Reindex(cols, ser, [q \in 1..Cardinality(P) |-> label])
  IN IF kind = "int" THEN Reindex(cols, ser, cols)[k]
     ELSE IF kind = "mask" \/ Len(cols) = 1 THEN re[Rank(P, p)]
     ELSE re[k]

\* df.loc[label, cols] = ser: every row carrying the label is written, in the
\* columns named by cols (ser carries the same names).
LocSet(d, label, cols, ser) ==
  [d EXCEPT !.values =
     [p \in 1..Len(d.values) |->
        IF d.index[p] = label
        THEN [c \in 1..Len(d.columns) |->
                IF InCols(cols, d.columns[c])
                THEN LocValue(d, label, cols, ser, p, ColPos(cols, d.columns[c]))
                ELSE d.values[p][c]]
        ELSE d.values[p]]]

\* ------------------------------------------------------------- inputs
Readings == {NaN} \cup {Val(n) : n \in 0..MaxVal}

\* The day cell: a day of the month, or blank in the sheet.
Days == {Val(1), NaN}

Labels == 0..MaxLabel

Shapes == {s \in (0..MaxRows) \X (0..MaxCols) : s[1] * s[2] <= MaxCells}

\* Column names are numbers: 0 and 1 stand for 'Date' and 'Day', a year column
\* is named by its year.
ColumnNames(c) == <<0, 1>> \o [k \in 1..c |-> FirstYear + k - 1]

\* Row p of a sheet: the time slot's timestamp, the day, the yearly readings.
MkRow(p, day, cells) == <<Val(p - 1), day>> \o cells

Tables(r, c, idx) ==
  { [index |-> idx,
     columns |-> ColumnNames(c),
     values |-> [p \in 1..r |-> MkRow(p, dy[p], cs[p])]] :
      dy \in [1..r -> Days], cs \in [1..r -> [1..c -> Readings]] }

\* pandas RangeIndex(r): the labels read_excel and DataFrame(data) give.
RangeIndex(r) == [p \in 1..r |-> p - 1]

\* A line of the diagnostic output.
Line(tag, cols, n) == [tag |-> tag, cols |-> cols, n |-> n]

\* ------------------------------------------------------------- the call
\* Before the caller has a table.
Init ==
  /\ heap = <<>>
  /\ df = 0
  /\ given = [index |-> <<>>, columns |-> ColumnNames(0), values |-> <<>>]
  /\ df_filled = 0
  /\ irradiance_cols = <<>>
  /\ rows = <<>>
  /\ i = 0
  /\ pc = "main"
  /\ stdout = <<>>
  /\ visited = <<>>
  /\ ret = 0
  /\ run = 1
  /\ first = 0

\* The caller holds the table T and is about to call
\* fill_missing_irradiance_data(T).
LoadTable(T) ==
  /\ heap' = <<T>>
  /\ df' = 1
  /\ given' = T
  /\ pc' = "call"
  /\ UNCHANGED <<df_filled, irradiance_cols, rows, i, stdout, visited, ret, run, first>>

\* A table as loaded from a sheet or built from columns: rows labelled 0, 1, ...
Load ==
  /\ pc = "main"
  /\ \E s \in Shapes : \E T \in Tables(s[1], s[2], RangeIndex(s[1])) : LoadTable(T)

\* A table with any row labels, repeated ones included.
LoadLabels ==
  /\ pc = "main"
  /\ \E s \in Shapes : \E idx \in [1..s[1] -> Labels] :
       \E T \in Tables(s[1], s[2], idx) : LoadTable(T)

\* Lines 21-29: copy the table, pick the irradiance columns, report them and
\* the initial count, and start iterating over the rows.
Call ==
  /\ pc = "call"
  /\ heap' = CopyHeap(heap, df)
  /\ df_filled' = CopyRef(heap, df)
  /\ irradiance_cols' = ColumnsFrom2(heap'[df_filled'])
  /\ stdout' = <<Line("columns", irradiance_cols', 0),
                 Line("initial", <<>>, NullCount(heap'[df_filled'], irradiance_cols'))>>
  /\ rows' = iterrows(heap'[df_filled'])
  /\ i' = 1
  /\ pc' = "loop"
  /\ UNCHANGED <<df, visited, ret, given, run, first>>

\* Lines 35-48: one iteration of the row loop, on the label and the row that
\* iterrows yields for position i.  A defined mean is written into the NaN cells
\* of the row; the write raising ValueError ends the call.
Iterate ==
  /\ pc = "loop"
  /\ i <= Len(rows)
  /\ visited' = Append(visited, i)
  /\ \E index \in {heap[df_filled].index[i]} :
     \E irradiance_values_in_row \in {Select(rows[i], heap[df_filled].columns,
                                             irradiance_cols)} :
     \E row_mean \in {nanmean(irradiance_values_in_row)} :
       IF isnan(row_mean)
       THEN UNCHANGED <<heap, pc>> /\ i' = i + 1
       ELSE IF LocRaises(heap[df_filled], index, irradiance_cols)
       THEN pc' = "raised" /\ UNCHANGED <<heap, i>>
       ELSE /\ heap' = [heap EXCEPT ![df_filled] =
                          LocSet(@, index, irradiance_cols,
                                 fillna(irradiance_values_in_row, row_mean))]
            /\ i' = i + 1
            /\ UNCHANGED pc
  /\ UNCHANGED <<df, df_filled, irradiance_cols, rows, stdout, ret, given, run, first>>

\* Lines 52-53: the rows are exhausted; report the final count and return.
Return ==
  /\ pc = "loop"
  /\ i > Len(rows)
  /\ stdout' = Append(stdout,
                      Line("final", <<>>, NullCount(heap[df_filled], irradiance_cols)))
  /\ ret' = df_filled
  /\ pc' = "done"
  /\ UNCHANGED <<heap, df, df_filled, irradiance_cols, rows, i, visited, given,
                 run, first>>

\* The caller passes the returned table to the function once more.
CallAgain ==
  /\ pc = "done"
  /\ run = 1
  /\ run' = 2
  /\ first' = ret
  /\ df' = ret
  /\ given' = heap[ret]
  /\ df_filled' = 0
  /\ irradiance_cols' = <<>>
  /\ rows' = <<>>
  /\ i' = 0
  /\ pc' = "call"
  /\ stdout' = <<>>
  /\ visited' = <<>>
  /\ ret' = 0
  /\ UNCHANGED heap

Next == Load \/ Call \/ Iterate \/ Return

NextTwice == Load \/ Call \/ Iterate \/ Return \/ CallAgain

NextLabels == LoadLabels \/ Call \/ Iterate \/ Return

Spec == Init /\ [][Next]_vars

\* A step of the function body.
Body == Call \/ Iterate \/ Return

\* Once called, the function is run to its end: the interpreter does not stop
\* in the middle of a call.
FairSpec == Init /\ [][Next]_vars /\ WF_vars(Body)

SpecTwice == Init /\ [][NextTwice]_vars

SpecLabels == Init /\ [][NextLabels]_vars

\* ------------------------------------------------------------- properties
\* The table the call returned, and the working copy.
Out == heap[ret]

Work == heap[df_filled]

\* The year cells of a row: those from the third column onward.
YearPos(T) == 3..Len(T.columns)

RowsOf(T) == 1..Len(T.values)

YearCells(r) == SubSeq(r, 3, Len(r))

HasValue(r) == \E c \in 3..Len(r) : ~isnan(r[c])

HasNull(r) == \E c \in 3..Len(r) : isnan(r[c])

FullyMissing(r) == \A c \in 3..Len(r) : isnan(r[c])

\* Some row of the returned table differs from the caller's: a fill happened.
Filled == pc = "done" /\ Out.values # given.values

\* x is the arithmetic mean of the non-null entries of vals: with D the product
\* of their denominators, x * count * D = (sum of the entries) * D.
RECURSIVE DenProd(_, _)
DenProd(vals, k) ==
  IF k = 0 THEN 1
  ELSE IF isnan(vals[k]) THEN DenProd(vals, k - 1)
  ELSE vals[k][2] * DenProd(vals, k - 1)

RECURSIVE ScaledSum(_, _, _)
ScaledSum(vals, k, D) ==
  IF k = 0 THEN 0
  ELSE IF isnan(vals[k]) THEN ScaledSum(vals, k - 1, D)
  ELSE vals[k][1] * (D \div vals[k][2]) + ScaledSum(vals, k - 1, D)

IsMeanOf(x, vals) ==
  LET K == Cardinality({k \in 1..Len(vals) : ~isnan(vals[k])})
      D == DenProd(vals, Len(vals))
  IN K > 0 /\ x[2] > 0 /\ x[1] * K * D = x[2] * ScaledSum(vals, Len(vals), D)

\* The null year cells of a table, counted row by row.
RECURSIVE Missing(_, _)
Missing(T, n) ==
  IF n = 0 THEN 0
  ELSE Cardinality({c \in 3..Len(T.values[n]) : isnan(T.values[n][c])}) + Missing(T, n - 1)

\* C1: a year cell that is non-null in the table the caller passed holds the
\* same value in the working copy after every iteration of the row loop and in
\* the returned table; a zero reading is such a value.
C1_NoOverwrite ==
  pc \in {"loop", "done"} =>
    \A p \in RowsOf(given) : \A c \in YearPos(given) :
      ~isnan(given.values[p][c]) =>
        /\ Work.values[p][c] = given.values[p][c]
        /\ pc = "done" => Out.values[p][c] = given.values[p][c]

\* C1 witness: the call returned, and a row holding a zero reading next to a
\* null was filled.
C1_Witness ==
  /\ Filled
  /\ \E p \in RowsOf(given) :
       /\ \E c \in YearPos(given) : given.values[p][c] = Val(0)
       /\ HasNull(given.values[p])
       /\ Out.values[p] # given.values[p]

\* C2: a row with at least one non-null year cell (a zero reading counts) has no
\* null year cell in the returned table.
C2_NoNullLeft ==
  pc = "done" =>
    \A p \in RowsOf(given) :
      HasValue(given.values[p]) => ~HasNull(Out.values[p])

\* C2 witness: the call returned a table for an input with a row whose only
\* readings are zero and that has a null cell.
C2_Witness ==
  /\ pc = "done"
  /\ \E p \in RowsOf(given) :
       /\ HasNull(given.values[p])
       /\ HasValue(given.values[p])
       /\ \A c \in YearPos(given) :
            isnan(given.values[p][c]) \/ given.values[p][c] = Val(0)

\* C3: a row whose year cells are all null still has all of them null in the
\* returned table.
C3_FullyMissingKept ==
  pc = "done" =>
    \A p \in RowsOf(given) :
      FullyMissing(given.values[p]) => FullyMissing(Out.values[p])

\* C3 witness: the call returned; one row with year cells is fully missing
\* while another row was filled.
C3_Witness ==
  /\ pc = "done"
  /\ Len(given.columns) >= 3
  /\ \E p, q \in RowsOf(given) :
       /\ FullyMissing(given.values[p])
       /\ Out.values[q] # given.values[q]

\* C4: a year cell that is null in the input and non-null in the output holds
\* the arithmetic mean (sum over count) of the values that were non-null in the
\* same row of the input.
C4_FilledWithMean ==
  pc = "done" =>
    \A p \in RowsOf(given) : \A c \in YearPos(given) :
      (isnan(given.values[p][c]) /\ ~isnan(Out.values[p][c])) =>
        IsMeanOf(Out.values[p][c], YearCells(given.values[p]))

\* C4 witness: a row with the readings 0 and 1 and a null came back with the
\* null replaced by 1/2.
C4_Witness ==
  /\ pc = "done"
  /\ \E p \in RowsOf(given) : \E a, b, c \in YearPos(given) :
       /\ given.values[p][a] = Val(0)
       /\ given.values[p][b] = Val(1)
       /\ isnan(given.values[p][c])
       /\ Out.values[p][c] = <<1, 2>>

\* C5: calling the function on the table it returned gives that table again,
\* cell for cell, labels and column names included.
C5_Idempotent ==
  (run = 2 /\ pc = "done") => Out = heap[first]

\* C5 witness: the second call returned, the first call had filled cells and
\* left a fully missing row.
C5_Witness ==
  /\ run = 2
  /\ pc = "done"
  /\ heap[first].values # heap[1].values
  /\ Len(given.columns) >= 3
  /\ \E p \in RowsOf(given) : FullyMissing(given.values[p])

\* C6: the returned table has the input's rows in the input's order, the
\* input's column names in order, and the input's two identifier cells in every
\* row.
C6_ShapePreserved ==
  pc = "done" =>
    /\ Len(Out.values) = Len(given.values)
    /\ Out.index = given.index
    /\ Out.columns = given.columns
    /\ \A p \in RowsOf(given) :
         /\ Len(Out.values[p]) = Len(given.values[p])
         /\ Out.values[p][1] = given.values[p][1]
         /\ Out.values[p][2] = given.values[p][2]

\* C6 witness: a table of two rows or more, one with a blank day, came back
\* with cells filled.
C6_Witness ==
  /\ Filled
  /\ Len(given.values) >= 2
  /\ \E p \in RowsOf(given) : isnan(given.values[p][2]) /\ Out.values[p] # given.values[p]

\* C7: the caller's table equals, at every step and after the return, what it
\* was before the call, and the returned table is another object.
C7_InputReadOnly ==
  /\ pc # "main" => heap[df] = given
  /\ pc = "done" => (ret # df /\ ret = df_filled)

\* C7 witness: the call returned a table that differs from the caller's.
C7_Witness ==
  /\ Filled
  /\ \E p \in RowsOf(given) : HasNull(heap[df].values[p]) /\ ~HasNull(Out.values[p])

\* The row the function is specified to produce from one input row alone.
RowOutput(r) ==
  [c \in 1..Len(r) |->
     IF c >= 3 /\ isnan(r[c]) THEN nanmean(YearCells(r)) ELSE r[c]]

\* C8: whatever the row labels are, an iteration of the loop at position i
\* changes no row other than row i and leaves in row i what the input's row i
\* alone determines.
C8_RowsIndependent ==
  [][(pc = "loop" /\ pc' = "loop") =>
       /\ \A p \in RowsOf(given) :
            p # i => heap'[df_filled].values[p] = heap[df_filled].values[p]
       /\ heap'[df_filled].values[i] = RowOutput(given.values[i])]_vars

\* C9: the reported columns are those from the third onward, the initial count
\* is the number of null year cells of the input, the final count that of the
\* returned table; the final count does not exceed the initial one and is
\* smaller when the input has a null year cell and no fully missing row.
C9_DiagnosticCounts ==
  /\ pc \in {"loop", "done"} =>
       /\ stdout[1].cols = SubSeq(given.columns, 3, Len(given.columns))
       /\ stdout[2].n = Missing(given, Len(given.values))
  /\ pc = "done" =>
       /\ stdout[3].n = Missing(Out, Len(Out.values))
       /\ stdout[3].n <= stdout[2].n
       /\ (stdout[2].n > 0 /\ \A p \in RowsOf(given) : ~FullyMissing(given.values[p]))
            => stdout[3].n < stdout[2].n

\* C9 witness: a table with a blank day and two null year cells or more, no row
\* fully missing, was reported with a final count of zero.
C9_Witness ==
  /\ pc = "done"
  /\ \E p \in RowsOf(given) : isnan(given.values[p][2])
  /\ stdout[2].n >= 2
  /\ stdout[3].n = 0

\* C10: the call visits each row once, in order, returns a table and raises
\* nothing, for every table: no rows, no year columns, all rows fully missing.
C10_Total ==
  /\ (pc = "call") ~> (pc = "done" /\ ret # 0 /\ visited = [p \in RowsOf(given) |-> p])
  /\ [](pc # "raised")

\* C10 witness: the call returned for a table of two rows or more whose every
\* year cell is null.
C10_Witness ==
  /\ pc = "done"
  /\ Len(given.values) >= 2
  /\ Len(given.columns) >= 3
  /\ \A p \in RowsOf(given) : FullyMissing(given.values[p])
  /\ visited = [p \in RowsOf(given) |-> p]
====
